---- MODULE Spec2Model ----
(***************************************************************************)
(* DRF-school: admission-number issuance (student/utils.py), student       *)
(* enrollment with its atomic units and post-commit hook (student/utils.py,*)
(* user_profile/views.py) and Transaction.clean (student/models.py).       *)
(*                                                                         *)
(* Strings are sequences of one-character strings, so that int(), str()    *)
(* and isdigit() are modelled as conversions and not as the identity.      *)
(***************************************************************************)
EXTENDS Integers, Sequences, FiniteSets, TLC

(***************************************************************************)
(* Bounds of the model.                                                    *)
(***************************************************************************)
\* largest total_length tried by the generator specification
MaxTotalLength == 5

(***************************************************************************)
(* State.                                                                  *)
(***************************************************************************)
\* one call of generate_admission_number
VARIABLES genPc,      \* "idle", "check", "draw", "returned" or "raised"
          genCode,    \* getenv("SCHOOL_CODE")
          genLength,  \* total_length
          genRandom,  \* the digits secrets.choice has returned so far
          genResult   \* the return value or the ValueError

genVars == << genPc, genCode, genLength, genRandom, genResult >>

\* one Transaction and the validation of an instance of it
VARIABLES txnPc,        \* "edit" or "cleaned"
          txnRow,       \* TRUE when the Transaction row exists
          txnPayer, txnAmount,
          txnItems,     \* TransactionItem rows: [transaction, fee, amount]
          cleanPk,      \* self.pk of the instance clean() ran on
          cleanErrors,  \* keys of the errors dict
          cleanRaised   \* TRUE when clean() raised ValidationError

txnVars == << txnPc, txnRow, txnPayer, txnAmount, txnItems, cleanPk, cleanErrors,
              cleanRaised >>

\* the store, the environment and the requests in flight
VARIABLES schoolCode,        \* getenv("SCHOOL_CODE") of the serving process
          students,          \* committed Student rows
          profile,           \* committed Profile field, per user: the request that wrote it
          pc,                \* position of each request
          req,               \* the request each connection serves
          tx,                \* uncommitted writes of each connection's transaction
          needs_rollback,    \* connection.needs_rollback
          run_on_commit,     \* connection.run_on_commit: callbacks scheduled
          has_sibling,       \* local of create_student_account
          admission_number,  \* local of create_student_account
          result,            \* what the caller of the request got
          committed,         \* the outermost atomic unit of the call committed
          sent,              \* notifications sent for the call
          failures           \* kinds of failure the call's loop has met

enrollVars == << schoolCode, students, profile, pc, req, tx, needs_rollback,
                 run_on_commit, has_sibling, admission_number, result, committed,
                 sent, failures >>

vars == << genVars, txnVars, enrollVars >>

(***************************************************************************)
(* Characters and the conversions of split_into_digits / f-strings.        *)
(***************************************************************************)
DigitChars == {"0", "1", "2", "3", "4", "5", "6", "7", "8", "9"}

\* int(digit) for a one-character decimal string
IntOfChar(c) ==
    CASE c = "0" -> 0 [] c = "1" -> 1 [] c = "2" -> 2 [] c = "3" -> 3
      [] c = "4" -> 4 [] c = "5" -> 5 [] c = "6" -> 6 [] c = "7" -> 7
      [] c = "8" -> 8 [] c = "9" -> 9

\* str(d) for 0 <= d <= 9
CharOfInt(d) ==
    CASE d = 0 -> "0" [] d = 1 -> "1" [] d = 2 -> "2" [] d = 3 -> "3"
      [] d = 4 -> "4" [] d = 5 -> "5" [] d = 6 -> "6" [] d = 7 -> "7"
      [] d = 8 -> "8" [] d = 9 -> "9"

\* str(n) for 0 <= n <= 99 (the doubled digits are at most 18)
StrOfInt(n) ==
    IF n < 10 THEN << CharOfInt(n) >>
              ELSE << CharOfInt(n \div 10), CharOfInt(n % 10) >>

\* str.isdigit(): non-empty and every character a decimal digit
IsDigit(s) == s # << >> /\ \A i \in 1..Len(s) : s[i] \in DigitChars

\* split_into_digits(n): [int(digit) for digit in str(n)], n already a string
split_into_digits(s) == [i \in 1..Len(s) |-> IntOfChar(s[i])]

RECURSIVE SumSeq(_)
\* sum() of a list of integers
SumSeq(s) == IF s = << >> THEN 0 ELSE s[1] + SumSeq(Tail(s))

\* digits[start::-2] for start = -1 (from = Len) or start = -2 (from = Len - 1)
RECURSIVE SliceBackBy2(_, _)
SliceBackBy2(digits, from) ==
    IF from < 1 THEN << >>
    ELSE << digits[from] >> \o SliceBackBy2(digits, from - 2)

RECURSIVE SumDoubled(_)
\* for d in even_digits: total += sum(split_into_digits(d * 2))
SumDoubled(even_digits) ==
    IF even_digits = << >> THEN 0
    ELSE SumSeq(split_into_digits(StrOfInt(even_digits[1] * 2)))
         + SumDoubled(Tail(even_digits))

\* a slip of calculate_luhn_check_digit: the two slices exchanged
calculate_luhn_check_digit_swapped(number) ==
    LET digits == split_into_digits(number)
        odd_digits == SliceBackBy2(digits, Len(digits) - 1)
        even_digits == SliceBackBy2(digits, Len(digits))
        total == SumSeq(odd_digits) + SumDoubled(even_digits)
    IN  (10 - (total % 10)) % 10

calculate_luhn_check_digit(number) ==
    LET digits == split_into_digits(number)
        odd_digits == SliceBackBy2(digits, Len(digits))
        even_digits == SliceBackBy2(digits, Len(digits) - 1)
        total == SumSeq(odd_digits) + SumDoubled(even_digits)
    IN  (10 - (total % 10)) % 10

\* the two ValueErrors of generate_admission_number
ErrSchoolCode == "SCHOOL_CODE must be set and numeric."
ErrTooLong == "SCHOOL_CODE too long for the configured admission number length."

\* remaining_digits = total_length - len(prefix) - 1
remaining_digits(total_length, school_code) == total_length - Len(school_code) - 1

\* generate_admission_number with the environment's SCHOOL_CODE and the digits
\* secrets.choice returned (random_digits, one per call) passed explicitly
generate_admission_number(total_length, school_code, random_digits) ==
    IF ~IsDigit(school_code)
    THEN [ok |-> FALSE, error |-> ErrSchoolCode, value |-> << >>]
    ELSE IF remaining_digits(total_length, school_code) <= 0
    THEN [ok |-> FALSE, error |-> ErrTooLong, value |-> << >>]
    ELSE LET partial_admission_number == school_code \o random_digits
             check_digit == calculate_luhn_check_digit(partial_admission_number)
         IN  [ok |-> TRUE, error |-> "",
              value |-> partial_admission_number \o StrOfInt(check_digit)]

(***************************************************************************)
(* Generator specification: one call of generate_admission_number, the     *)
(* random digits drawn one secrets.choice at a time.                       *)
(***************************************************************************)

\* values of SCHOOL_CODE tried: unset, numeric of several lengths, non-numeric
SchoolCodes == { << >>, << "7" >>, << "4", "2" >>, << "9", "0", "5" >>, << "1", "A" >> }

NoResult == [ok |-> FALSE, error |-> "pending", value |-> << >>]

\* lines 11-19: the configuration checks raise before any digit is drawn
GenConfigError ==
    /\ genPc = "check"
    /\ ~generate_admission_number(genLength, genCode, << >>).ok
    /\ genResult' = generate_admission_number(genLength, genCode, << >>)
    /\ genPc' = "raised"
    /\ UNCHANGED << genCode, genLength, genRandom, txnVars, enrollVars >>

\* lines 11-19 pass
GenConfigOk ==
    /\ genPc = "check"
    /\ generate_admission_number(genLength, genCode, << >>).ok
    /\ genPc' = "draw"
    /\ UNCHANGED << genCode, genLength, genRandom, genResult, txnVars, enrollVars >>

\* lines 21-23: one secrets.choice("0123456789")
GenChoice ==
    /\ genPc = "draw"
    /\ Len(genRandom) < remaining_digits(genLength, genCode)
    /\ \E c \in DigitChars : genRandom' = Append(genRandom, c)
    /\ UNCHANGED << genPc, genCode, genLength, genResult, txnVars, enrollVars >>

\* lines 24-27
GenReturn ==
    /\ genPc = "draw"
    /\ Len(genRandom) = remaining_digits(genLength, genCode)
    /\ genResult' = generate_admission_number(genLength, genCode, genRandom)
    /\ genPc' = "returned"
    /\ UNCHANGED << genCode, genLength, genRandom, txnVars, enrollVars >>

GenNext == GenConfigError \/ GenConfigOk \/ GenChoice \/ GenReturn

(***************************************************************************)
(* Claim C8.                                                               *)
(***************************************************************************)
\* digit sum of the double of a digit, written without the string round trip
DoubledDigitSum(d) == IF 2 * d > 9 THEN 2 * d - 9 ELSE 2 * d

RECURSIVE LuhnTotalFrom(_, _)
\* positions counted from the right: odd ones added directly, even ones doubled
LuhnTotalFrom(s, i) ==
    IF i > Len(s) THEN 0
    ELSE (IF (Len(s) - i) % 2 = 0 THEN IntOfChar(s[i])
                                  ELSE DoubledDigitSum(IntOfChar(s[i])))
         + LuhnTotalFrom(s, i + 1)

LuhnCheckDigitOf(s) == (10 - (LuhnTotalFrom(s, 1) % 10)) % 10

\* C8: for a numeric institution code and a total_length that leaves at least
\* one random digit, generate_admission_number returns exactly total_length
\* decimal digits that begin with the code and end with the Luhn check digit
\* of the digits before it (odd positions from the right added directly, even
\* positions as the digit sum of their double, (10 - total % 10) % 10).
C8_AdmissionNumberShape ==
    (/\ genPc \in {"returned", "raised"}
     /\ IsDigit(genCode)
     /\ remaining_digits(genLength, genCode) > 0)
    => /\ genPc = "returned"
       /\ genResult.ok
       /\ Len(genResult.value) = genLength
       /\ \A i \in 1..Len(genResult.value) : genResult.value[i] \in DigitChars
       /\ SubSeq(genResult.value, 1, Len(genCode)) = genCode
       /\ SubSeq(genResult.value, Len(genCode) + 1, genLength - 1) = genRandom
       /\ genResult.value[genLength]
            = CharOfInt(LuhnCheckDigitOf(SubSeq(genResult.value, 1, genLength - 1)))

\* a returned number with at least two random digits, a doubled digit that has
\* two digits (>= 5 at an even position from the right) and a non-zero check digit
C8_Witness ==
    /\ genPc = "returned"
    /\ genResult.ok
    /\ Len(genRandom) >= 2
    /\ IntOfChar(genResult.value[genLength - 2]) >= 5
    /\ genResult.value[genLength] # "0"

(***************************************************************************)
(* Transaction.clean (student/models.py).  Amounts are in whole currency   *)
(* units; Decimal comparison is integer comparison on them.                *)
(***************************************************************************)
\* largest Transaction.amount tried
MaxAmount == 2
\* largest TransactionItem.amount tried
MaxItemAmount == 2

\* users and their role attribute
Users == {"p1", "p2", "t1"}
Role(u) == IF u = "t1" THEN "teacher" ELSE "parent"
\* getattr(User.RoleChoices, "PARENT", "parent")
PARENT == "parent"

\* Fees rows: fee -> fee.student.parent
FeeIds == {"f1", "f2", "f3"}
FeeStudentParent(f) == IF f = "f3" THEN "p2" ELSE "p1"

\* pk of an instance that has no row yet
NoPk == 0
\* pk of the one Transaction row of this specification
TxnPk == 1


\* self.items.all(): the rows whose transaction is self
items_all(pk) == {ti \in txnItems : ti.transaction = pk}

RECURSIVE SumAmounts(_)
SumAmounts(rows) ==
    IF rows = {} THEN 0
    ELSE LET r == CHOOSE x \in rows : TRUE IN r.amount + SumAmounts(rows \ {r})

\* items.aggregate(total=Sum("amount")).get("total"): SQL SUM is NULL over no rows
aggregate_total(rows) ==
    IF rows = {} THEN [none |-> TRUE, value |-> 0]
                 ELSE [none |-> FALSE, value |-> SumAmounts(rows)]

\* a slip of clean(): raising at the first violated rule
clean_errors_first_only(pk, payer, amount) ==
    LET items == items_all(pk)
        total == aggregate_total(items)
    IN  IF Role(payer) # PARENT THEN {"payer"}
        ELSE IF amount <= 0 THEN {"amount"}
        ELSE IF pk = NoPk THEN {}
        ELSE IF items = {} THEN {"items"}
        ELSE IF total.none \/ total.value # amount THEN {"items_amount"}
        ELSE IF \E ti \in items : FeeStudentParent(ti.fee) # payer THEN {"items_owner"}
        ELSE {}

\* a slip of clean(): the item rules evaluated without the `if self.pk` guard
clean_item_errors_no_pk_guard(pk, payer, amount) ==
    LET items == items_all(pk)
        total == aggregate_total(items)
        invalid == {ti \in items : FeeStudentParent(ti.fee) # payer}
    IN  (IF items = {} THEN {"items"} ELSE {})
        \cup (IF total.none \/ total.value # amount THEN {"items_amount"} ELSE {})
        \cup (IF invalid # {} THEN {"items_owner"} ELSE {})

\* lines 158-168: the item rules, only for an instance that has a pk
clean_item_errors(pk, payer, amount) ==
    IF pk = NoPk THEN {}
    ELSE LET items == items_all(pk)
             total == aggregate_total(items)
             invalid == {ti \in items : FeeStudentParent(ti.fee) # payer}
         IN  (IF items = {} THEN {"items"} ELSE {})
             \cup (IF total.none \/ total.value # amount THEN {"items_amount"} ELSE {})
             \cup (IF invalid # {} THEN {"items_owner"} ELSE {})

\* the keys clean() puts in errors, lines 149-168
clean_errors(pk, payer, amount) ==
    (IF Role(payer) # PARENT THEN {"payer"} ELSE {})
    \cup (IF amount <= 0 THEN {"amount"} ELSE {})
    \cup clean_item_errors(pk, payer, amount)

\* Transaction.save(): the row gets its pk; save() does not call clean()
TxnSave ==
    /\ txnPc = "edit"
    /\ ~txnRow
    /\ txnRow' = TRUE
    /\ UNCHANGED << txnPc, txnPayer, txnAmount, txnItems, cleanPk, cleanErrors,
                    cleanRaised, genVars, enrollVars >>

\* a TransactionItem row for the saved transaction; unique_together
\* (transaction, fee)
TxnAddItem ==
    /\ txnPc = "edit"
    /\ txnRow
    /\ \E f \in FeeIds, a \in 1..MaxItemAmount :
         /\ \A ti \in txnItems : ti.fee # f
         /\ txnItems' = txnItems \cup {[transaction |-> TxnPk, fee |-> f, amount |-> a]}
    /\ UNCHANGED << txnPc, txnRow, txnPayer, txnAmount, cleanPk, cleanErrors,
                    cleanRaised, genVars, enrollVars >>

\* clean() on an instance: the persisted row (pk set), or an instance with the
\* same payer and amount that has not been saved (pk None)
TxnClean ==
    /\ txnPc = "edit"
    /\ \E pk \in {NoPk} \cup (IF txnRow THEN {TxnPk} ELSE {}) :
         /\ cleanPk' = pk
         /\ cleanErrors' = clean_errors(pk, txnPayer, txnAmount)
         /\ cleanRaised' = (clean_errors(pk, txnPayer, txnAmount) # {})
    /\ txnPc' = "cleaned"
    /\ UNCHANGED << txnRow, txnPayer, txnAmount, txnItems, genVars, enrollVars >>

TxnNext == TxnSave \/ TxnAddItem \/ TxnClean

(***************************************************************************)
(* Enrollment: create_student_account (student/utils.py) called directly   *)
(* or nested in ProfileDetailAPIView.update (user_profile/views.py), each  *)
(* request on its own database connection.  A connection's transaction     *)
(* sees the committed rows and its own writes; the unique index makes an   *)
(* insert wait for an uncommitted row with the same key.  Each connection  *)
(* serves one request; earlier enrollments are in the initial store.       *)
(***************************************************************************)
\* how many of the ten digits the random source yields
NumDigitChoices == 2

\* generate_admission_number(16), utils.py line 76
ADMISSION_LENGTH == 16

Procs == {"r1", "r2"}
Parents == {"p1", "p2"}

\* Student.Gender.choices, models.py lines 16-19
GenderValues == {"male", "female", "other"}
\* gender arguments tried: absent, a choice, not a choice
GenderInputs == {"", "male", "robot"}

\* SCHOOL_CODE of the deployment: numeric leaving one random digit, unset,
\* non-numeric, and too long for sixteen characters
NumericCode == << "2", "0", "2", "6", "0", "0", "0", "0", "0", "0", "0", "0", "0", "7" >>
EnrollSchoolCodes ==
    { NumericCode, << >>, << "S", "1" >>, NumericCode \o << "1" >> }

\* the digits secrets.choice yields in this model
RandomChars == {CharOfInt(d) : d \in 0..(NumDigitChoices - 1)}

RECURSIVE DigitStrings(_)
\* all strings of n random digits
DigitStrings(n) ==
    IF n <= 0 THEN { << >> }
    ELSE {Append(s, c) : s \in DigitStrings(n - 1), c \in RandomChars}

\* names bound in the namespace of student/utils.py (imports and defs)
UtilsGlobals ==
    {"secrets", "getenv", "Union", "List", "transaction", "IntegrityError",
     "StudentEmails", "student_models", "generate_admission_number",
     "calculate_luhn_check_digit", "create_student_account"}

\* the name the on_commit lambda calls, utils.py line 92
CallbackName == "send_account_creation_email"

NoRequest ==
    [kind |-> "none", user |-> "p1", gender |-> "", valid |-> TRUE,
     create_student |-> FALSE, fault |-> "none"]

\* direct calls of create_student_account and PUT/PATCH my-profile requests.
\* fault is what the database does to the request: "integrity" an
\* IntegrityError of the insert that is not a duplicate admission number,
\* "operational" another database error of the insert, "late" a database
\* error of the view's queries after create_student_account returned
Requests ==
    {[kind |-> "direct", user |-> u, gender |-> g, valid |-> TRUE,
      create_student |-> TRUE, fault |-> f] :
        u \in Parents, g \in GenderInputs, f \in {"none", "integrity", "operational"}}
    \cup
    {[kind |-> "update", user |-> u, gender |-> g, valid |-> v,
      create_student |-> c, fault |-> f] :
        u \in Parents, g \in GenderInputs, v \in BOOLEAN, c \in BOOLEAN,
        f \in {"none", "integrity", "operational", "late"}}

\* requests that differ only in fields their path never reads are one request
Normal(r) ==
    /\ (r.gender \notin GenderValues \cup {""} => r.fault = "none")
    /\ (r.kind = "update" /\ ~r.valid => ~r.create_student)
    /\ (r.kind = "update" /\ ~r.create_student => r.gender = "" /\ r.fault = "none")

\* tx.profile is "none" until serializer.save() writes the profile
NoTx == [profile |-> "none", rows |-> {}, updated |-> {}]
NoResponse == [status |-> "none", exc |-> "none"]

\* the row of an enrollment that committed before the requests of the model:
\* p1's only student, so its flag is the snapshot of a parent with no student
EarlierStudent ==
    [admission_number |->
        generate_admission_number(ADMISSION_LENGTH, NumericCode, << "0" >>).value,
     parent |-> "p1", has_sibling |-> FALSE, call |-> "init"]

\* the Student rows a statement of p's transaction sees: committed rows, with
\* p's own uncommitted flag updates applied, and p's own inserts
Visible(p) ==
    {[s EXCEPT !.has_sibling = s.has_sibling \/ s.admission_number \in tx[p].updated] :
        s \in students}
    \cup tx[p].rows

\* a slip of the sibling snapshot: the flag set unconditionally
exists_for_parent_always(p, user) == TRUE

\* Student.objects.filter(parent=user).exists(), utils.py line 72
exists_for_parent(p, user) == \E s \in Visible(p) : s.parent = user

\* a unique index without effect
is_duplicate_never(p, number) == FALSE

\* unique=True on admission_number: the key is already in a row p can see
is_duplicate(p, number) ==
    \E s \in Visible(p) : s.admission_number = number

\* the key is in an uncommitted row of another transaction: the insert waits
held_by_other(p, number) ==
    \E q \in Procs \ {p} : \E s \in tx[q].rows : s.admission_number = number

\* what the caller sees when exception exc leaves the call: a direct call
\* raises it, the view's except clauses turn it into a 400 response
Raised(p, exc) ==
    [status |-> IF req[p].kind = "update" THEN "400" ELSE "raised", exc |-> exc]

\* a slip of the view: serializer.save() outside the atomic block, so that the
\* profile write survives the exception
RaiseKeepingProfile(p, exc) ==
    /\ profile' = IF tx[p].profile # "none"
                  THEN [profile EXCEPT ![req[p].user] = tx[p].profile]
                  ELSE profile
    /\ tx' = [tx EXCEPT ![p] = NoTx]
    /\ run_on_commit' = [run_on_commit EXCEPT ![p] = {}]
    /\ needs_rollback' = [needs_rollback EXCEPT ![p] = FALSE]
    /\ result' = [result EXCEPT ![p] = Raised(p, exc)]
    /\ pc' = [pc EXCEPT ![p] = "done"]
    /\ UNCHANGED << students >>

\* an exception leaves every atomic block of the call: the inner block rolls
\* back to its savepoint, the outermost rolls the transaction back, the
\* callbacks scheduled in it are dropped, and the exception reaches the caller
\* (views.py lines 133-136 for a profile update)
Raise(p, exc) ==
    /\ tx' = [tx EXCEPT ![p] = NoTx]
    /\ run_on_commit' = [run_on_commit EXCEPT ![p] = {}]
    /\ needs_rollback' = [needs_rollback EXCEPT ![p] = FALSE]
    /\ result' = [result EXCEPT ![p] = Raised(p, exc)]
    /\ pc' = [pc EXCEPT ![p] = "done"]
    /\ UNCHANGED << students, profile >>

\* a request arrives on an idle connection
Begin(p) ==
    /\ pc[p] = "idle"
    /\ \E r \in Requests :
         /\ Normal(r)
         /\ req' = [req EXCEPT ![p] = r]
         /\ pc' = [pc EXCEPT ![p] = IF r.kind = "update" THEN "is_valid" ELSE "csa"]
    /\ UNCHANGED << schoolCode, students, profile, tx, needs_rollback, run_on_commit,
                    has_sibling, admission_number, result, committed, sent, failures,
                    genVars, txnVars >>

\* views.py line 95: serializer.is_valid(raise_exception=True), before the
\* atomic block; a ValidationError becomes the 400 response of line 134
U_IsValid(p) ==
    /\ pc[p] = "is_valid"
    /\ IF req[p].valid
       THEN /\ pc' = [pc EXCEPT ![p] = "save"]
            /\ UNCHANGED << students, profile, tx, needs_rollback, run_on_commit, result >>
       ELSE Raise(p, "ValidationError")
    /\ UNCHANGED << schoolCode, req, has_sibling, admission_number, committed,
                    sent, failures, genVars, txnVars >>

\* views.py lines 96-103: enter the atomic block, serializer.save()
U_Save(p) ==
    /\ pc[p] = "save"
    /\ tx' = [tx EXCEPT ![p].profile = p]
    /\ pc' = [pc EXCEPT ![p] = IF req[p].create_student THEN "csa" ELSE "commit"]
    /\ UNCHANGED << schoolCode, students, profile, req, needs_rollback,
                    run_on_commit, has_sibling, admission_number, result, committed,
                    sent, failures, genVars, txnVars >>

\* utils.py lines 59-72: defaults, the gender check, then the atomic block
\* (a savepoint when nested) and the has_sibling snapshot
CSA_Enter(p) ==
    /\ pc[p] = "csa"
    /\ LET gender == IF req[p].gender = "" THEN "other" ELSE req[p].gender
       IN  IF gender \notin GenderValues
           THEN /\ Raise(p, "ValueError")
                /\ UNCHANGED has_sibling
           ELSE /\ has_sibling' = [has_sibling EXCEPT ![p] = exists_for_parent(p, req[p].user)]
                /\ pc' = [pc EXCEPT ![p] = "generate"]
                /\ UNCHANGED << students, profile, tx, needs_rollback, run_on_commit,
                                result >>
    /\ UNCHANGED << schoolCode, req, admission_number, committed, sent,
                    failures, genVars, txnVars >>

\* utils.py lines 75-76: the head of the loop, generate_admission_number(16);
\* its ValueError is not caught and leaves the atomic block
CSA_Generate(p) ==
    /\ pc[p] = "generate"
    /\ IF ~generate_admission_number(ADMISSION_LENGTH, schoolCode, << >>).ok
       THEN /\ Raise(p, "ValueError")
            /\ failures' = [failures EXCEPT ![p] = @ \cup {"config"}]
            /\ UNCHANGED admission_number
       ELSE /\ \E random_digits \in
                   DigitStrings(remaining_digits(ADMISSION_LENGTH, schoolCode)) :
                 admission_number' = [admission_number EXCEPT ![p] =
                     generate_admission_number(ADMISSION_LENGTH, schoolCode,
                                               random_digits).value]
            /\ pc' = [pc EXCEPT ![p] = "insert"]
            /\ UNCHANGED << students, profile, tx, needs_rollback, run_on_commit,
                            result, failures >>
    /\ UNCHANGED << schoolCode, req, has_sibling, committed, sent, genVars,
                    txnVars >>

\* utils.py lines 77-92: Student.objects.create in the try, the except
\* IntegrityError that continues the loop, and after the break the on_commit
\* registration.  A query on a connection whose needs_rollback is set raises
\* TransactionManagementError; a database error of the insert inside an
\* atomic block sets needs_rollback (Model.save_base marks the transaction).
CSA_Insert(p) ==
    /\ pc[p] = "insert"
    /\ IF needs_rollback[p]
       THEN /\ Raise(p, "TransactionManagementError")
            /\ UNCHANGED failures
       ELSE IF req[p].fault = "operational"
       THEN /\ Raise(p, "OperationalError")
            /\ failures' = [failures EXCEPT ![p] = @ \cup {"operational"}]
       ELSE IF req[p].fault = "integrity"
       THEN /\ needs_rollback' = [needs_rollback EXCEPT ![p] = TRUE]
            /\ failures' = [failures EXCEPT ![p] = @ \cup {"integrity"}]
            /\ pc' = [pc EXCEPT ![p] = "generate"]
            /\ UNCHANGED << students, profile, tx, run_on_commit, result >>
       ELSE /\ ~held_by_other(p, admission_number[p])
            /\ IF is_duplicate(p, admission_number[p])
               THEN /\ needs_rollback' = [needs_rollback EXCEPT ![p] = TRUE]
                    /\ failures' = [failures EXCEPT ![p] = @ \cup {"duplicate"}]
                    /\ pc' = [pc EXCEPT ![p] = "generate"]
                    /\ UNCHANGED << students, profile, tx, run_on_commit, result >>
               ELSE /\ tx' = [tx EXCEPT ![p].rows = @ \cup
                                {[admission_number |-> admission_number[p],
                                  parent |-> req[p].user,
                                  has_sibling |-> has_sibling[p],
                                  call |-> p]}]
                    /\ run_on_commit' = [run_on_commit EXCEPT ![p] = @ \cup {p}]
                    /\ pc' = [pc EXCEPT ![p] =
                                IF req[p].kind = "update" THEN "sibling" ELSE "commit"]
                    /\ UNCHANGED << students, profile, needs_rollback, result, failures >>
    /\ UNCHANGED << schoolCode, req, has_sibling, admission_number, committed,
                    sent, genVars, txnVars >>

\* a slip of the sibling recomputation: only the rows other than the new one
sibling_qs_older(p, user) ==
    {s \in Visible(p) : s.parent = user /\ s.call # p}

\* views.py line 116: Student.objects.filter(parent=updated_instance.user)
sibling_qs(p, user) == {s \in Visible(p) : s.parent = user}

\* views.py lines 116-118: qs.count() > 1, then qs.update(has_sibling=True)
U_Sibling(p) ==
    /\ pc[p] = "sibling"
    /\ IF req[p].fault = "late"
       THEN Raise(p, "OperationalError")
       ELSE /\ LET qs == sibling_qs(p, req[p].user)
               IN  tx' = IF Cardinality(sibling_qs(p, req[p].user)) > 1
                         THEN [tx EXCEPT
                                 ![p].rows = {IF s \in qs
                                              THEN [s EXCEPT !.has_sibling = TRUE]
                                              ELSE s : s \in tx[p].rows},
                                 ![p].updated = @ \cup
                                    {s.admission_number : s \in qs \ tx[p].rows}]
                         ELSE tx
            /\ pc' = [pc EXCEPT ![p] = "commit"]
            /\ UNCHANGED << students, profile, needs_rollback, run_on_commit, result >>
    /\ UNCHANGED << schoolCode, req, has_sibling, admission_number, committed,
                    sent, failures, genVars, txnVars >>

\* the outermost atomic block exits without an exception (utils.py line 71
\* for a direct call, views.py line 96 for a profile update): COMMIT
Commit(p) ==
    /\ pc[p] = "commit"
    /\ students' =
         {[s EXCEPT !.has_sibling = s.has_sibling \/ s.admission_number \in tx[p].updated] :
             s \in students}
         \cup tx[p].rows
    /\ profile' = IF tx[p].profile # "none"
                  THEN [profile EXCEPT ![req[p].user] = tx[p].profile]
                  ELSE profile
    /\ tx' = [tx EXCEPT ![p] = NoTx]
    /\ committed' = [committed EXCEPT ![p] = TRUE]
    /\ pc' = [pc EXCEPT ![p] = "hooks"]
    /\ UNCHANGED << schoolCode, req, needs_rollback, run_on_commit, has_sibling,
                    admission_number, result, sent, failures, genVars, txnVars >>

\* after COMMIT the connection runs the callbacks of utils.py line 92: the
\* lambda looks CallbackName up in the module's namespace and calls it.  An
\* exception of a callback leaves the atomic block's exit: a direct call
\* raises it, the view answers it with the 400 of line 136.
RunCommitHooks(p) ==
    /\ pc[p] = "hooks"
    /\ IF run_on_commit[p] = {}
       THEN /\ result' = [result EXCEPT ![p] =
                  [status |-> IF req[p].kind = "update" THEN "200" ELSE "returned",
                   exc |-> "none"]]
            /\ UNCHANGED sent
       ELSE IF CallbackName \in UtilsGlobals
       THEN /\ sent' = [sent EXCEPT ![p] = @ + Cardinality(run_on_commit[p])]
            /\ result' = [result EXCEPT ![p] =
                  [status |-> IF req[p].kind = "update" THEN "200" ELSE "returned",
                   exc |-> "none"]]
       ELSE /\ result' = [result EXCEPT ![p] = Raised(p, "NameError")]
            /\ UNCHANGED sent
    /\ run_on_commit' = [run_on_commit EXCEPT ![p] = {}]
    /\ pc' = [pc EXCEPT ![p] = "done"]
    /\ UNCHANGED << schoolCode, students, profile, req, tx, needs_rollback,
                    has_sibling, admission_number, committed, failures, genVars,
                    txnVars >>

\* a request that arrives while no other request is being served
BeginAlone(p) ==
    /\ \A q \in Procs \ {p} : pc[q] \in {"idle", "done"}
    /\ Begin(p)

Step(p) ==
    \/ U_IsValid(p) \/ U_Save(p) \/ CSA_Enter(p) \/ CSA_Generate(p) \/ CSA_Insert(p)
    \/ U_Sibling(p) \/ Commit(p) \/ RunCommitHooks(p)

Next == \E p \in Procs : Begin(p) \/ Step(p)

NextSeq == \E p \in Procs : BeginAlone(p) \/ Step(p)

(***************************************************************************)
(* Specifications.                                                         *)
(***************************************************************************)
\* the store before the requests, no generator call and no Transaction
EnrollInit ==
    /\ schoolCode \in EnrollSchoolCodes
    /\ students \in {{}} \cup (IF schoolCode = NumericCode THEN {{EarlierStudent}} ELSE {})
    /\ profile = [u \in Parents |-> "init"]
    /\ pc = [p \in Procs |-> "idle"]
    /\ req = [p \in Procs |-> NoRequest]
    /\ tx = [p \in Procs |-> NoTx]
    /\ needs_rollback = [p \in Procs |-> FALSE]
    /\ run_on_commit = [p \in Procs |-> {}]
    /\ has_sibling = [p \in Procs |-> FALSE]
    /\ admission_number = [p \in Procs |-> << >>]
    /\ result = [p \in Procs |-> NoResponse]
    /\ committed = [p \in Procs |-> FALSE]
    /\ sent = [p \in Procs |-> 0]
    /\ failures = [p \in Procs |-> {}]
    /\ genPc = "idle" /\ genCode = << >> /\ genLength = 0 /\ genRandom = << >>
    /\ genResult = NoResult
    /\ txnPc = "idle" /\ txnRow = FALSE /\ txnPayer = "p1" /\ txnAmount = 0
    /\ txnItems = {} /\ cleanPk = NoPk /\ cleanErrors = {} /\ cleanRaised = FALSE

\* a call of generate_admission_number about to start, nothing else
GenInit ==
    /\ genPc = "check"
    /\ genCode \in SchoolCodes
    /\ genLength \in 1..MaxTotalLength
    /\ genRandom = << >>
    /\ genResult = NoResult
    /\ txnPc = "idle" /\ txnRow = FALSE /\ txnPayer = "p1" /\ txnAmount = 0
    /\ txnItems = {} /\ cleanPk = NoPk /\ cleanErrors = {} /\ cleanRaised = FALSE
    /\ schoolCode = << >>
    /\ students = {}
    /\ profile = [u \in Parents |-> "init"]
    /\ pc = [p \in Procs |-> "idle"]
    /\ req = [p \in Procs |-> NoRequest]
    /\ tx = [p \in Procs |-> NoTx]
    /\ needs_rollback = [p \in Procs |-> FALSE]
    /\ run_on_commit = [p \in Procs |-> {}]
    /\ has_sibling = [p \in Procs |-> FALSE]
    /\ admission_number = [p \in Procs |-> << >>]
    /\ result = [p \in Procs |-> NoResponse]
    /\ committed = [p \in Procs |-> FALSE]
    /\ sent = [p \in Procs |-> 0]
    /\ failures = [p \in Procs |-> {}]

\* a Transaction about to be saved, nothing else
TxnInit ==
    /\ txnPc = "edit"
    /\ txnRow = FALSE
    /\ txnPayer \in Users
    /\ txnAmount \in -1..MaxAmount
    /\ txnItems = {}
    /\ cleanPk = NoPk
    /\ cleanErrors = {}
    /\ cleanRaised = FALSE
    /\ genPc = "idle" /\ genCode = << >> /\ genLength = 0 /\ genRandom = << >>
    /\ genResult = NoResult
    /\ schoolCode = << >>
    /\ students = {}
    /\ profile = [u \in Parents |-> "init"]
    /\ pc = [p \in Procs |-> "idle"]
    /\ req = [p \in Procs |-> NoRequest]
    /\ tx = [p \in Procs |-> NoTx]
    /\ needs_rollback = [p \in Procs |-> FALSE]
    /\ run_on_commit = [p \in Procs |-> {}]
    /\ has_sibling = [p \in Procs |-> FALSE]
    /\ admission_number = [p \in Procs |-> << >>]
    /\ result = [p \in Procs |-> NoResponse]
    /\ committed = [p \in Procs |-> FALSE]
    /\ sent = [p \in Procs |-> 0]
    /\ failures = [p \in Procs |-> {}]

\* requests served concurrently
Spec == EnrollInit /\ [][Next]_vars

\* requests served one after the other
SpecSeq == EnrollInit /\ [][NextSeq]_vars

\* one call of generate_admission_number
SpecGen == GenInit /\ [][GenNext]_vars

\* one Transaction, its items and clean()
SpecTxn == TxnInit /\ [][TxnNext]_vars

(***************************************************************************)
(* Claims about Transaction.clean, under SpecTxn.                          *)
(***************************************************************************)
\* the rules of the claim that do not concern line items
PayerAmountRules ==
    (IF Role(txnPayer) # "parent" THEN {"payer"} ELSE {})
    \cup (IF txnAmount <= 0 THEN {"amount"} ELSE {})

\* the line items of the persisted transaction and their sum (0 for none)
PersistedItems == {ti \in txnItems : ti.transaction = TxnPk}
PersistedSum == SumAmounts(PersistedItems)

ItemsRule == IF PersistedItems = {} THEN {"items"} ELSE {}
OwnerRule ==
    IF \E ti \in PersistedItems : FeeStudentParent(ti.fee) # txnPayer
    THEN {"items_owner"} ELSE {}

\* C4 as stated: for a persisted Transaction the keys of the ValidationError
\* are exactly the violated rules, items_amount meaning that the sum of the
\* line-item amounts differs from the transaction amount, and clean() passes
\* exactly when no rule is violated.
C4_ExactlyViolatedRules ==
    (txnPc = "cleaned" /\ cleanPk = TxnPk) =>
        LET violated == PayerAmountRules \cup ItemsRule \cup OwnerRule
                        \cup (IF PersistedSum # txnAmount THEN {"items_amount"} ELSE {})
        IN  cleanErrors = violated /\ cleanRaised = (violated # {})

\* C4 amended: as C4, with items_amount reported when the transaction has no
\* line item (the aggregate sum is then undefined) or the sum of the line-item
\* amounts differs from the transaction amount.
C4_ExactlyViolatedRulesNoItems ==
    (txnPc = "cleaned" /\ cleanPk = TxnPk) =>
        LET violated == PayerAmountRules \cup ItemsRule \cup OwnerRule
                        \cup (IF PersistedItems = {} \/ PersistedSum # txnAmount
                              THEN {"items_amount"} ELSE {})
        IN  cleanErrors = violated /\ cleanRaised = (violated # {})

\* a persisted transaction with line items on which three rules fail together
C4_Witness ==
    /\ txnPc = "cleaned" /\ cleanPk = TxnPk
    /\ Cardinality(PersistedItems) >= 2
    /\ cleanErrors = {"payer", "items_amount", "items_owner"}
    /\ cleanRaised

\* C10: validation of a Transaction that has no row yet evaluates the payer
\* and amount rules only: it never reports items, items_amount or
\* items_owner, whatever line items the store holds, and passes exactly when
\* the payer is a parent and the amount is positive.
C10_UnsavedSkipsItemRules ==
    (txnPc = "cleaned" /\ cleanPk = NoPk) =>
        /\ cleanErrors = PayerAmountRules
        /\ cleanRaised = ~(Role(txnPayer) = "parent" /\ txnAmount > 0)

\* an unsaved instance passes while the store holds line items of another
\* payer's student whose sum differs from the amount
C10_Witness ==
    /\ txnPc = "cleaned" /\ cleanPk = NoPk
    /\ ~cleanRaised
    /\ PersistedItems # {}
    /\ PersistedSum # txnAmount
    /\ OwnerRule # {}

(***************************************************************************)
(* Claims about enrollment, under Spec (concurrent requests) and SpecSeq   *)
(* (requests one after the other).                                         *)
(***************************************************************************)
\* the committed rows the request of connection p inserted
RowsOf(p) == {s \in students : s.call = p}

\* the request of p calls create_student_account
Enrolls(p) == req[p].kind = "direct" \/ (req[p].kind = "update" /\ req[p].create_student)

\* C1: no two persisted Student rows share an admission number, for any
\* interleaving of enrollments, also when the random source repeats digits.
C1_UniqueAdmissionNumbers ==
    \A s, t \in students : s.admission_number = t.admission_number => s = t

\* two rows persisted and a request whose insert met an existing number
C1_Witness ==
    /\ Cardinality(students) >= 2
    /\ \E p \in Procs : "duplicate" \in failures[p]

\* C2: a call whose insert met a duplicate admission number regenerates and
\* retries in the same atomic unit, and ends with exactly one new row of its
\* own persisted and without a database error reaching the caller.
C2_RetryRecovers ==
    \A p \in Procs :
        (pc[p] = "done" /\ failures[p] = {"duplicate"} /\ req[p].fault = "none") =>
            /\ Cardinality(RowsOf(p)) = 1
            /\ result[p].exc \notin {"IntegrityError", "TransactionManagementError"}

\* C3: the enrollment notification is sent once when the outermost atomic
\* unit of the call commits, not at all when it rolls back, and never before
\* the commit.
C3_NotifiedOncePerCommit ==
    \A p \in Procs :
        /\ sent[p] > 0 => committed[p]
        /\ (pc[p] = "done" /\ Enrolls(p)) => sent[p] = (IF committed[p] THEN 1 ELSE 0)

\* the request of p is a profile update whose nested student has a gender
\* outside the choices
NestedInvalidGender(p) ==
    /\ req[p].kind = "update" /\ req[p].create_student
    /\ req[p].gender \notin {"", "male", "female", "other"}

\* C5: a profile update whose nested student creation fails validation leaves
\* neither its profile change nor a Student row in the store, schedules and
\* sends no notification, and answers with an error response.
C5_NestedFailureRollsBack ==
    \A p \in Procs :
        NestedInvalidGender(p) =>
            /\ profile[req[p].user] # p
            /\ RowsOf(p) = {}
            /\ run_on_commit[p] = {}
            /\ sent[p] = 0
            /\ pc[p] = "done" => (result[p].status = "400" /\ tx[p] = NoTx /\ ~committed[p])

\* such an update has finished, after its profile write, while the profile of
\* its user holds no write of it
C5_Witness ==
    \E p \in Procs :
        /\ NestedInvalidGender(p)
        /\ pc[p] = "done"
        /\ result[p] = [status |-> "400", exc |-> "ValueError"]

\* the step in which the outermost atomic unit of p's request commits
Commits(p) == pc[p] = "commit" /\ pc'[p] = "hooks"

\* C6: when a profile update with nested student creation commits, every
\* student of the parent is flagged has_sibling if the parent then owns more
\* than one, the only student is not flagged if the parent owns one, and the
\* students of other parents are unchanged.
C6_SiblingFlagsAfterUpdate ==
    [][\A p \in Procs :
         (Commits(p) /\ req[p].kind = "update" /\ req[p].create_student) =>
            LET mine == {s \in students' : s.parent = req[p].user}
            IN  /\ Cardinality(mine) > 1 => \A s \in mine : s.has_sibling
                /\ Cardinality(mine) = 1 => \A s \in mine : ~s.has_sibling
                /\ {s \in students' : s.parent # req[p].user}
                     = {s \in students : s.parent # req[p].user}]_vars

\* an update has committed for a parent who then owns the student enrolled
\* before the request and the new one, both flagged
C6_Witness ==
    \E p \in Procs :
        /\ pc[p] = "hooks" /\ committed[p]
        /\ req[p].kind = "update" /\ req[p].create_student
        /\ LET mine == {s \in students : s.parent = req[p].user}
           IN  /\ Cardinality(mine) = 2
               /\ EarlierStudent.admission_number \in {s.admission_number : s \in mine}
               /\ \A s \in mine : s.has_sibling

\* C7: a direct call adds one row whose has_sibling tells whether the parent
\* owned a student when it was called, and changes no existing row.
C7_DirectSnapshotOnly ==
    [][\A p \in Procs :
         (Commits(p) /\ req[p].kind = "direct") =>
            /\ students \subseteq students'
            /\ Cardinality(students' \ students) = 1
            /\ \A s \in students' \ students :
                 /\ s.call = p /\ s.parent = req[p].user
                 /\ s.has_sibling = (\E t \in students : t.parent = req[p].user)]_vars

\* two direct calls for a parent who had no student: the first student is
\* still unflagged after the second call, the second is flagged
C7_Witness ==
    \E p, q \in Procs :
        /\ p # q
        /\ pc[p] = "done" /\ pc[q] = "done"
        /\ req[p].kind = "direct" /\ req[q].kind = "direct"
        /\ req[p].user = req[q].user
        /\ \E s, t \in students :
             /\ {s, t} = {x \in students : x.parent = req[p].user}
             /\ s.call = p /\ ~s.has_sibling
             /\ t.call = q /\ t.has_sibling

\* C9: a configuration error, and every failure of the insert that is not a
\* duplicate admission number, ends the call at once: no further iteration
\* of the loop, no Student row and no scheduled notification.
C9_OnlyDuplicateRetries ==
    \A p \in Procs :
        (failures[p] \cap {"config", "integrity", "operational"} # {}) =>
            /\ pc[p] = "done"
            /\ result[p].status \in {"raised", "400"}
            /\ RowsOf(p) = {} /\ tx[p].rows = {}
            /\ run_on_commit[p] = {}

\* the request of p is a profile update with nested student creation for
\* parent u whose atomic unit has committed
NestedUpdateCommitted(p, u) ==
    /\ req[p].kind = "update" /\ req[p].create_student /\ req[p].user = u
    /\ pc[p] \in {"hooks", "done"} /\ committed[p]

C12_ResponseAgreesWithStore ==
    \A p \in Procs :
        (req[p].kind = "update" /\ pc[p] = "done") =>
            /\ (result[p].status = "200") = committed[p]
            /\ result[p].status = "400" =>
                 (profile[req[p].user] # p /\ RowsOf(p) = {})

====
